---- MODULE Spec2Model ----
(***************************************************************************)
(* A model of the Merkle Patricia Trie of cita-trie (src/src/trie.rs):     *)
(* the node graph, get / insert / remove / degenerate, the RLP node        *)
(* encoding with the inline/hash rule, commit with its stale-node removal  *)
(* and the read cache of expanded sub-tries.                               *)
(*                                                                         *)
(* keccak-256 is taken to be injective: the hash of an encoding is the     *)
(* record [k |-> "keccak", of |-> encoding].  An encoding is kept as the   *)
(* RLP item it is the byte string of (RLP is a bijection between items and *)
(* their canonical byte strings); its byte length is computed by RlpLen.   *)
(***************************************************************************)
EXTENDS Integers, Sequences, FiniteSets, TLC

KECCAK_SIZE == 32

(***************************************************************************)
(* Bounds of the model.                                                    *)
(***************************************************************************)
\* Number of public operations in one run.
MaxOps == 5
\* Length in bytes of the long value: a Leaf that holds it encodes to 32
\* bytes or more and is referred to by its hash.
LongLen == 32

\* The keys of the model, as byte strings: the empty key (a prefix of every
\* key), 0x00 and 0x01 (a common first nibble), 0x0000 (0x00 is a prefix of
\* it) and 0x10.
Keys == {<< >>, <<0>>, <<0, 0>>, <<1>>, <<16>>}
\* The order in which a reference trie is built.
KeyOrder == << << >>, <<0>>, <<0, 0>>, <<1>>, <<16>> >>

ShortValue == <<1>>
LongValue == [i \in 1..LongLen |-> 2]
\* The non-empty values of the model.
Values == {ShortValue, LongValue}

\* Option<Vec<u8>>
None == << >>
Some(v) == <<v>>

(***************************************************************************)
(* Nibble paths (crate::nibbles).  A path is the sequence of its nibbles,  *)
(* 0..15, followed by the sentinel 16 when the terminator flag is set:     *)
(* at(i) answers 16 at the terminator's place, and len counts it.          *)
(***************************************************************************)
FromRaw(bytes, is_leaf) ==
    LET nib == [i \in 1..(2 * Len(bytes)) |->
                  IF i % 2 = 1 THEN bytes[(i + 1) \div 2] \div 16
                               ELSE bytes[i \div 2] % 16]
    IN  IF is_leaf THEN nib \o <<16>> ELSE nib \o << >>

FromHex(hex) == hex

IsLeaf(p) == Len(p) > 0 /\ p[Len(p)] = 16

At(p, i) == p[i + 1]

Offset(p, k) == SubSeq(p, k + 1, Len(p))

Slice(p, a, b) == SubSeq(p, a + 1, b)

Join(p, q) == p \o q

Min(a, b) == IF a < b THEN a ELSE b

CommonPrefix(p, q) ==
    LET m == Min(Len(p), Len(q))
        diff == {i \in 1..m : p[i] # q[i]}
    IN  IF diff = {} THEN m
        ELSE (CHOOSE i \in diff : \A j \in diff : i <= j) - 1

\* The nibbles of a path without its terminator.
Nibs(p) == IF IsLeaf(p) THEN SubSeq(p, 1, Len(p) - 1) ELSE p

\* Ethereum hex-prefix: the first byte's high nibble is
\* (terminator ? 2 : 0) | (odd ? 1 : 0), its low nibble the first nibble of
\* an odd path; the other nibbles are packed high-then-low.
EncodeCompact(p) ==
    LET nib == Nibs(p)
        odd == Len(nib) % 2 = 1
        flag == (IF IsLeaf(p) THEN 2 ELSE 0) + (IF odd THEN 1 ELSE 0)
        first == flag * 16 + (IF odd THEN nib[1] ELSE 0)
        rest == IF odd THEN SubSeq(nib, 2, Len(nib)) ELSE nib
    IN  <<first>> \o [i \in 1..(Len(rest) \div 2) |->
                        rest[2 * i - 1] * 16 + rest[2 * i]]

FromCompact(bytes) ==
    LET h == bytes[1]
        is_leaf == (h \div 32) % 2 = 1
        odd == (h \div 16) % 2 = 1
        body == FromRaw(SubSeq(bytes, 2, Len(bytes)), FALSE)
        nib == IF odd THEN <<h % 16>> \o body ELSE body
    IN  IF is_leaf THEN nib \o <<16>> ELSE nib

\* NibbleVec::encode_raw: the packed bytes of a path of even length.
EncodeRawNibbles(p) ==
    LET nib == Nibs(p)
    IN  [i \in 1..(Len(nib) \div 2) |-> nib[2 * i - 1] * 16 + nib[2 * i]] \o << >>

(***************************************************************************)
(* Nodes (crate::node).                                                    *)
(***************************************************************************)
Empty == [t |-> "Empty"]
Leaf(key, value) == [t |-> "Leaf", key |-> key, value |-> value]
Extension(prefix, node) == [t |-> "Extension", prefix |-> prefix, node |-> node]
Branch(children, value) == [t |-> "Branch", children |-> children, value |-> value]
HashNode(hash) == [t |-> "Hash", hash |-> hash]
\* An operation's error, carried in the place of the node it would return.
ErrNode(e) == [t |-> "Err", err |-> e]
IsErr(n) == n.t = "Err"

\* node::empty_children: sixteen Empty children; child i is children[i + 1].
EmptyChildren == [i \in 1..16 |-> Empty]

Child(b, i) == b.children[i + 1]
SetChild(b, i, n) == [b EXCEPT !.children[i + 1] = n]

\* BranchNode::insert: index 16 is the value slot and takes a leaf's value.
BranchInsert(b, i, n) ==
    IF i = 16 THEN [b EXCEPT !.value = Some(n.value)] ELSE SetChild(b, i, n)

(***************************************************************************)
(* RLP items and keccak.                                                   *)
(***************************************************************************)
RlpData(bytes) == [k |-> "data", b |-> bytes]
RlpList(items) == [k |-> "list", xs |-> items]
\* The 32 bytes of a hash appended as an RLP string.
RlpHash(h) == [k |-> "hstr", h |-> h]
\* rlp::NULL_RLP, the byte 0x80.
NULL_RLP == RlpData(<< >>)

Keccak(item) == [k |-> "keccak", of |-> item]
\* The hash a dangling Hash node reads as once its memory has been reused:
\* 32 bytes that are the hash of nothing in the store.
JunkHash == [k |-> "keccak", of |-> [k |-> "junk"]]

\* The bytes needed to write a length.
LenOfLen(n) == IF n < 256 THEN 1 ELSE 2

RECURSIVE RlpLen(_)
RECURSIVE SumLen(_, _)
SumLen(xs, i) == IF i > Len(xs) THEN 0 ELSE RlpLen(xs[i]) + SumLen(xs, i + 1)

\* The number of bytes of an item's RLP encoding.
RlpLen(item) ==
    CASE item.k = "data" ->
           LET n == Len(item.b)
           IN  IF n = 1 /\ item.b[1] < 128 THEN 1
               ELSE IF n <= 55 THEN 1 + n
               ELSE 1 + LenOfLen(n) + n
      [] item.k = "hstr" -> 1 + KECCAK_SIZE
      [] item.k = "list" ->
           LET n == SumLen(item.xs, 1)
           IN  IF n <= 55 THEN 1 + n ELSE 1 + LenOfLen(n) + n

\* The length of what encode_node returns: an encoding, or the 32 bytes
\* of a hash.
DataLen(d) == IF d.k \in {"keccak", "raw"} THEN KECCAK_SIZE ELSE RlpLen(d)

(***************************************************************************)
(* Node encoding (encode_node, encode_raw) and decoding (decode_node).     *)
(* An encoder answers [data, cache]: the bytes it returns and the          *)
(* (hash, encoding) entries it has put into the cache.                     *)
(***************************************************************************)
\* if data.len() == KECCAK_SIZE { stream.append(&data) }
\* else { stream.append_raw(&data, 1) }
ChildRef(d) == IF DataLen(d) = KECCAK_SIZE THEN RlpHash(d) ELSE d

\* Option<Vec<u8>> in a Branch's value slot.
ValueItem(value) == IF value = None THEN NULL_RLP ELSE RlpData(value[1])

RECURSIVE EncodeRaw(_)
RECURSIVE EncodeNode(_)

EncodeLeaf(n) ==
    [data |-> RlpList(<<RlpData(EncodeCompact(n.key)), RlpData(n.value)>>),
     cache |-> {}]

\* encode_node of the children 0 .. i-1 of a Branch, in order.
RECURSIVE EncodeChildren(_, _)
EncodeChildren(n, i) ==
    IF i = 0 THEN << >>
    ELSE Append(EncodeChildren(n, i - 1), EncodeNode(n.children[i]))

\* The 17 items of a Branch over enc, the encodings of its children.
BranchItems(n, enc) ==
    RlpList([i \in 1..16 |-> ChildRef(enc[i].data)] \o <<ValueItem(n.value)>>)

EncodeBranchOver(n, enc) ==
    [data |-> BranchItems(n, enc),
     cache |-> UNION {enc[i].cache : i \in 1..16}]

EncodeBranch(n) == EncodeBranchOver(n, EncodeChildren(n, 16))

EncodeExtension(n) ==
    LET enc == EncodeNode(n.node)
    IN  [data |-> RlpList(<<RlpData(EncodeCompact(n.prefix)), ChildRef(enc.data)>>),
         cache |-> enc.cache]

EncodeRaw(n) ==
    CASE n.t = "Empty" -> [data |-> NULL_RLP, cache |-> {}]
      [] n.t = "Leaf" -> EncodeLeaf(n)
      [] n.t = "Branch" -> EncodeBranch(n)
      [] n.t = "Extension" -> EncodeExtension(n)

\* A Hash node answers its hash; an encoding of 32 bytes or more is put
\* into the cache under its hash, and the hash answered.
HashOrInline(r) ==
    IF RlpLen(r.data) < KECCAK_SIZE THEN r
    ELSE [data |-> Keccak(r.data),
          cache |-> r.cache \cup {<<Keccak(r.data), r.data>>}]

EncodeNode(n) ==
    IF n.t = "Hash" THEN [data |-> n.hash, cache |-> {}]
    ELSE HashOrInline(EncodeRaw(n))

RECURSIVE DecodeNode(_)

\* Prototype::List(2)
DecodeList2(xs) ==
    IF xs[1].k # "data" \/ xs[1].b = << >> THEN ErrNode("Decoder")
    ELSE LET key == FromCompact(xs[1].b)
         IN  IF IsLeaf(key)
             THEN IF xs[2].k = "data" THEN Leaf(key, xs[2].b)
                  ELSE ErrNode("Decoder")
             ELSE LET n == DecodeNode(xs[2])
                  IN  IF IsErr(n) THEN n ELSE Extension(key, n)

\* Prototype::List(17)
DecodeList17(xs) ==
    LET nodes == [i \in 1..16 |-> DecodeNode(xs[i])]
        bad == {i \in 1..16 : IsErr(nodes[i])}
    IN  IF bad # {} THEN nodes[CHOOSE i \in bad : \A j \in bad : i <= j]
        ELSE IF xs[17] = NULL_RLP THEN Branch(nodes, None)
        ELSE IF xs[17].k = "data" THEN Branch(nodes, Some(xs[17].b))
        ELSE ErrNode("Decoder")

DecodeNode(item) ==
    CASE item = NULL_RLP -> Empty
      [] item.k = "list" /\ Len(item.xs) = 2 -> DecodeList2(item.xs)
      [] item.k = "list" /\ Len(item.xs) = 17 -> DecodeList17(item.xs)
      [] item.k = "hstr" -> HashNode(item.h)
      [] item.k = "data" /\ item # NULL_RLP /\ Len(item.b) = KECCAK_SIZE ->
           HashNode([k |-> "raw", b |-> item.b])
      [] OTHER -> ErrNode("InvalidData")

(***************************************************************************)
(* The store (crate::db, a MemoryDB that removes): a function from hashes  *)
(* to encodings.                                                           *)
(***************************************************************************)
EmptyDb == [h \in {} |-> NULL_RLP]

DbGet(db, key) == IF key \in DOMAIN db THEN Some(db[key]) ELSE None

\* insert_batch: the entries of a cache are written over the store's.
DbInsertBatch(db, cache) ==
    LET keys == {e[1] : e \in cache}
    IN  [h \in DOMAIN db \cup keys |->
           IF h \in keys THEN (CHOOSE e \in cache : e[1] = h)[2] ELSE db[h]]

DbRemoveBatch(db, keys) == [h \in DOMAIN db \ keys |-> db[h]]

\* recover_from_db: a hash the store does not hold reads as Empty.
RecoverFromDb(db, key) ==
    IF DbGet(db, key) = None THEN Empty ELSE DecodeNode(DbGet(db, key)[1])

(***************************************************************************)
(* get_at.  cached_tries maps a hash to the trie opened at it, a record    *)
(* [root, cached_tries]; a lookup answers [val, cached]: the Option read   *)
(* (or Panic) and the cache as the lookup leaves it.                       *)
(***************************************************************************)
\* A panic, in the place of an Option (a pair: no Option has two elements).
Panic == <<"panic", "unwrap">>
EmptyCache == [h \in {} |-> Empty]

RECURSIVE GetAt(_, _, _, _)

GetAtLeaf(n, partial) == IF n.key = partial THEN Some(n.value) ELSE None

\* Node::Hash: a cached trie answers; otherwise the trie is opened with
\* PatriciaTrie::from(..).unwrap(), which panics on a hash the store does
\* not hold, and is put into the cache after the lookup.
GetAtHash(n, partial, db, cached) ==
    IF n.hash \in DOMAIN cached
    THEN LET trie == cached[n.hash]
             r == GetAt(trie.root, partial, db, trie.cached_tries)
         IN  IF r.val = Panic THEN [val |-> Panic, cached |-> cached]
             ELSE [val |-> r.val,
                   cached |-> [cached EXCEPT ![n.hash] =
                                 [root |-> trie.root, cached_tries |-> r.cached]]]
    ELSE IF DbGet(db, n.hash) = None \/ IsErr(DecodeNode(DbGet(db, n.hash)[1]))
         THEN [val |-> Panic, cached |-> cached]
         ELSE LET root == DecodeNode(DbGet(db, n.hash)[1])
                  r == GetAt(root, partial, db, EmptyCache)
              IN  IF r.val = Panic THEN [val |-> Panic, cached |-> cached]
                  ELSE [val |-> r.val,
                        cached |-> [h \in DOMAIN cached \cup {n.hash} |->
                                      IF h = n.hash
                                      THEN [root |-> root, cached_tries |-> r.cached]
                                      ELSE cached[h]]]

GetAt(n, partial, db, cached) ==
    CASE n.t = "Empty" -> [val |-> None, cached |-> cached]
      [] n.t = "Leaf" -> [val |-> GetAtLeaf(n, partial), cached |-> cached]
      [] n.t = "Branch" ->
           IF partial = << >> \/ At(partial, 0) = 16
           THEN [val |-> n.value, cached |-> cached]
           ELSE GetAt(Child(n, At(partial, 0)), Offset(partial, 1), db, cached)
      [] n.t = "Extension" ->
           IF CommonPrefix(partial, n.prefix) = Len(n.prefix)
           THEN GetAt(n.node, Offset(partial, Len(n.prefix)), db, cached)
           ELSE [val |-> None, cached |-> cached]
      [] n.t = "Hash" -> GetAtHash(n, partial, db, cached)

(***************************************************************************)
(* insert_at.  A write answers [node, rec]: the node that replaces the one *)
(* it was given (an ErrNode when it failed) and the hashes it has put into *)
(* recovered_nodes_hashes.                                                 *)
(***************************************************************************)
RECURSIVE InsertAt(_, _, _, _)

\* insert_at's Leaf arm without the Extension over the common prefix.
InsertAtLeaf_NoExtension(n, partial, value) ==
    LET old_partial == n.key
        match_index == CommonPrefix(partial, old_partial)
    IN  IF match_index = Len(old_partial) THEN Leaf(n.key, value)
        ELSE BranchInsert(
                 BranchInsert(Branch(EmptyChildren, None),
                              At(old_partial, match_index),
                              Leaf(Offset(old_partial, match_index + 1), n.value)),
                 At(partial, match_index),
                 Leaf(Offset(partial, match_index + 1), value))

\* insert_at's Leaf arm with the value of an equal key extended, not replaced.
InsertAtLeaf_ExtendsValue(n, partial, value) ==
    LET old_partial == n.key
        match_index == CommonPrefix(partial, old_partial)
        branch == BranchInsert(
                      BranchInsert(Branch(EmptyChildren, None),
                                   At(old_partial, match_index),
                                   Leaf(Offset(old_partial, match_index + 1), n.value)),
                      At(partial, match_index),
                      Leaf(Offset(partial, match_index + 1), value))
    IN  IF match_index = Len(old_partial) THEN Leaf(n.key, n.value \o value)
        ELSE IF match_index = 0 THEN branch
        ELSE Extension(Slice(partial, 0, match_index), branch)

InsertAtLeaf(n, partial, value) ==
    LET old_partial == n.key
        match_index == CommonPrefix(partial, old_partial)
        branch == BranchInsert(
                      BranchInsert(Branch(EmptyChildren, None),
                                   At(old_partial, match_index),
                                   Leaf(Offset(old_partial, match_index + 1), n.value)),
                      At(partial, match_index),
                      Leaf(Offset(partial, match_index + 1), value))
    IN  IF match_index = Len(old_partial) THEN Leaf(n.key, value)
        ELSE IF match_index = 0 THEN branch
        ELSE Extension(Slice(partial, 0, match_index), branch)

InsertAtBranch(n, partial, value, db) ==
    IF At(partial, 0) = 16
    THEN [node |-> [n EXCEPT !.value = Some(value)], rec |-> {}]
    ELSE LET r == InsertAt(Child(n, At(partial, 0)), Offset(partial, 1), value, db)
         IN  IF IsErr(r.node) THEN r
             ELSE [node |-> SetChild(n, At(partial, 0), r.node), rec |-> r.rec]

\* match_index == 0: the extension is rebuilt as a branch.
ExtensionAsBranch(n) ==
    BranchInsert(Branch(EmptyChildren, None), At(n.prefix, 0),
                 IF Len(n.prefix) = 1 THEN n.node
                 ELSE Extension(Offset(n.prefix, 1), n.node))

InsertAtExtension(n, partial, value, db) ==
    LET prefix == n.prefix
        match_index == CommonPrefix(partial, prefix)
    IN  IF match_index = 0 THEN InsertAt(ExtensionAsBranch(n), partial, value, db)
        ELSE IF match_index = Len(prefix)
        THEN LET r == InsertAt(n.node, Offset(partial, match_index), value, db)
             IN  IF IsErr(r.node) THEN r
                 ELSE [node |-> Extension(prefix, r.node), rec |-> r.rec]
        ELSE LET new_ext == Extension(Offset(prefix, match_index), n.node)
                 r == InsertAt(new_ext, Offset(partial, match_index), value, db)
             IN  IF IsErr(r.node) THEN r
                 ELSE [node |-> Extension(Slice(prefix, 0, match_index), r.node),
                       rec |-> r.rec]

InsertAtHash(n, partial, value, db) ==
    LET recovered == RecoverFromDb(db, n.hash)
        r == InsertAt(recovered, partial, value, db)
    IN  IF IsErr(recovered) THEN [node |-> recovered, rec |-> {n.hash}]
        ELSE [node |-> r.node, rec |-> r.rec \cup {n.hash}]

InsertAt(n, partial, value, db) ==
    CASE n.t = "Empty" -> [node |-> Leaf(partial, value), rec |-> {}]
      [] n.t = "Leaf" -> [node |-> InsertAtLeaf(n, partial, value), rec |-> {}]
      [] n.t = "Branch" -> InsertAtBranch(n, partial, value, db)
      [] n.t = "Extension" -> InsertAtExtension(n, partial, value, db)
      [] n.t = "Hash" -> InsertAtHash(n, partial, value, db)

(***************************************************************************)
(* degenerate.                                                             *)
(***************************************************************************)
RECURSIVE Degenerate(_, _)

DegenerateBranch(n, db) ==
    LET used_indexes == {i \in 0..15 : Child(n, i) # Empty}
    IN  IF used_indexes = {} /\ n.value # None
        THEN [node |-> Leaf(FromRaw(<< >>, TRUE), n.value[1]), rec |-> {}]
        ELSE IF Cardinality(used_indexes) = 1 /\ n.value = None
        THEN LET used_index == CHOOSE i \in used_indexes : TRUE
             IN  Degenerate(Extension(FromHex(<<used_index>>), Child(n, used_index)), db)
        ELSE [node |-> n, rec |-> {}]

DegenerateExtension(n, db) ==
    CASE n.node.t = "Extension" ->
           Degenerate(Extension(Join(n.prefix, n.node.prefix), n.node.node), db)
      [] n.node.t = "Leaf" ->
           [node |-> Leaf(Join(n.prefix, n.node.key), n.node.value), rec |-> {}]
      [] n.node.t = "Hash" ->
           LET recovered_node == RecoverFromDb(db, n.node.hash)
               r == Degenerate(Extension(n.prefix, recovered_node), db)
           IN  IF IsErr(recovered_node)
               THEN [node |-> recovered_node, rec |-> {n.node.hash}]
               ELSE [node |-> r.node, rec |-> r.rec \cup {n.node.hash}]
      [] OTHER -> [node |-> n, rec |-> {}]

Degenerate(n, db) ==
    CASE n.t = "Branch" -> DegenerateBranch(n, db)
      [] n.t = "Extension" -> DegenerateExtension(n, db)
      [] OTHER -> [node |-> n, rec |-> {}]

(***************************************************************************)
(* delete_at.  A removal answers [node, removed, rec].                     *)
(*                                                                         *)
(* The Hash arm frees the Hash node it was given (to_owned).  When the     *)
(* key is not found under it the parent keeps its pointer to the freed     *)
(* node: what a later read of that node finds is undefined.  junk chooses  *)
(* between the two outcomes: the freed memory still holds the hash, or it  *)
(* has been reused and holds 32 other bytes (JunkHash).                    *)
(***************************************************************************)
RECURSIVE DeleteAt(_, _, _, _)

Freed(n, junk) == IF n.t = "Hash" /\ junk THEN HashNode(JunkHash) ELSE n

\* if deleted { degenerate(new_n) } at the end of delete_at
DegenerateIfDeleted(r, db) ==
    IF IsErr(r.node) \/ ~r.removed THEN r
    ELSE LET d == Degenerate(r.node, db)
         IN  [node |-> d.node, removed |-> TRUE, rec |-> r.rec \cup d.rec]

DeleteAtLeaf(n, partial) ==
    IF n.key = partial THEN [node |-> Empty, removed |-> TRUE, rec |-> {}]
    ELSE [node |-> n, removed |-> FALSE, rec |-> {}]

\* The arm answers with `return` when the key ends at the branch:
\* degenerate is not reached.
DeleteAtBranch(n, partial, db, junk) ==
    LET index == At(partial, 0)
        r == DeleteAt(Child(n, index), Offset(partial, 1), db, junk)
    IN  IF index = 16
        THEN [node |-> [n EXCEPT !.value = None], removed |-> TRUE, rec |-> {}]
        ELSE IF IsErr(r.node) THEN r
        ELSE DegenerateIfDeleted(
                 [node |-> IF r.removed THEN SetChild(n, index, r.node)
                           ELSE SetChild(n, index, Freed(Child(n, index), junk)),
                  removed |-> r.removed, rec |-> r.rec], db)

DeleteAtExtension(n, partial, db, junk) ==
    LET match_len == CommonPrefix(partial, n.prefix)
        r == DeleteAt(n.node, Offset(partial, match_len), db, junk)
    IN  IF match_len # Len(n.prefix)
        THEN [node |-> n, removed |-> FALSE, rec |-> {}]
        ELSE IF IsErr(r.node) THEN r
        ELSE DegenerateIfDeleted(
                 [node |-> IF r.removed THEN Extension(n.prefix, r.node)
                           ELSE Extension(n.prefix, Freed(n.node, junk)),
                  removed |-> r.removed, rec |-> r.rec], db)

DeleteAtHash(n, partial, db, junk) ==
    LET recovered == RecoverFromDb(db, n.hash)
        r == DeleteAt(recovered, partial, db, junk)
    IN  IF IsErr(recovered)
        THEN [node |-> recovered, removed |-> FALSE, rec |-> {n.hash}]
        ELSE DegenerateIfDeleted(
                 [node |-> r.node, removed |-> r.removed,
                  rec |-> r.rec \cup {n.hash}], db)

DeleteAt(n, partial, db, junk) ==
    CASE n.t = "Empty" -> [node |-> Empty, removed |-> FALSE, rec |-> {}]
      [] n.t = "Leaf" -> DeleteAtLeaf(n, partial)
      [] n.t = "Branch" -> DeleteAtBranch(n, partial, db, junk)
      [] n.t = "Extension" -> DeleteAtExtension(n, partial, db, junk)
      [] n.t = "Hash" -> DeleteAtHash(n, partial, db, junk)

(***************************************************************************)
(* The trie and its public operations.  A trie is the record of the fields *)
(* of PatriciaTrie: root, root_hash, db, recovered_nodes_hashes and        *)
(* cached_tries.  An operation answers [trie, res].                        *)
(***************************************************************************)
MkTrie(r, h, d, rec, c) ==
    [root |-> r, root_hash |-> h, db |-> d,
     recovered_nodes_hashes |-> rec, cached_tries |-> c]

\* PatriciaTrie::new
TrieNew(d) == MkTrie(Empty, Keccak(NULL_RLP), d, {}, EmptyCache)

\* PatriciaTrie::from that opens an empty trie at a hash the store does not
\* hold.
TrieFrom_AbsentIsEmpty(d, root_hash) ==
    IF DbGet(d, root_hash) = None
    THEN [trie |-> MkTrie(Empty, root_hash, d, {}, EmptyCache), res |-> "Ok"]
    ELSE LET n == DecodeNode(DbGet(d, root_hash)[1])
         IN  IF IsErr(n) THEN [trie |-> TrieNew(d), res |-> n.err]
             ELSE [trie |-> MkTrie(n, root_hash, d, {}, EmptyCache), res |-> "Ok"]

\* PatriciaTrie::from: [trie, res], res "Ok" or the error.
TrieFrom(d, root_hash) ==
    IF DbGet(d, root_hash) = None
    THEN [trie |-> TrieNew(d), res |-> "InvalidStateRoot"]
    ELSE LET n == DecodeNode(DbGet(d, root_hash)[1])
         IN  IF IsErr(n) THEN [trie |-> TrieNew(d), res |-> n.err]
             ELSE [trie |-> MkTrie(n, root_hash, d, {}, EmptyCache), res |-> "Ok"]

\* Trie::get that records the root hash as expanded, the way insert_at and
\* delete_at record the hash of a Hash node they load.
TrieGet_RecordsHashes(t, key) ==
    LET r == GetAt(t.root, FromRaw(key, TRUE), t.db, t.cached_tries)
    IN  [trie |-> [t EXCEPT !.cached_tries = r.cached,
                            !.recovered_nodes_hashes = @ \cup {t.root_hash}],
         res |-> r.val]

\* Trie::get: res is the Option read, or Panic.
TrieGet(t, key) ==
    LET r == GetAt(t.root, FromRaw(key, TRUE), t.db, t.cached_tries)
    IN  [trie |-> [t EXCEPT !.cached_tries = r.cached], res |-> r.val]

\* Trie::contains
TrieContains(t, key) ==
    LET r == TrieGet(t, key)
    IN  [trie |-> r.trie, res |-> IF r.res = Panic THEN Panic ELSE r.res # None]

\* Trie::remove over r, the result of delete_at: res is the bool answered,
\* or the error.
RemoveResult(t, r) ==
    IF IsErr(r.node)
    THEN [trie |-> [t EXCEPT !.recovered_nodes_hashes = @ \cup r.rec],
          res |-> r.node.err]
    ELSE [trie |-> [t EXCEPT !.root = r.node,
                             !.recovered_nodes_hashes = @ \cup r.rec],
          res |-> r.removed]

\* Trie::remove
TrieRemove(t, key, junk) ==
    RemoveResult(t, DeleteAt(t.root, FromRaw(key, TRUE), t.db, junk))

\* Trie::insert of an empty value, over rm, the result of remove.
InsertEmptyResult(rm) ==
    [trie |-> rm.trie, res |-> IF rm.res \in BOOLEAN THEN "Ok" ELSE rm.res]

\* Trie::insert of a non-empty value, over r, the result of insert_at.
InsertResult(t, r) ==
    IF IsErr(r.node)
    THEN [trie |-> [t EXCEPT !.recovered_nodes_hashes = @ \cup r.rec],
          res |-> r.node.err]
    ELSE [trie |-> [t EXCEPT !.root = r.node,
                             !.recovered_nodes_hashes = @ \cup r.rec],
          res |-> "Ok"]

\* Trie::insert without the test for an empty value.
TrieInsert_NoEmptyTest(t, key, value, junk) ==
    InsertResult(t, InsertAt(t.root, FromRaw(key, TRUE), value, t.db))

\* Trie::insert: an empty value removes the key.
TrieInsert(t, key, value, junk) ==
    IF value = << >>
    THEN InsertEmptyResult(TrieRemove(t, key, junk))
    ELSE InsertResult(t, InsertAt(t.root, FromRaw(key, TRUE), value, t.db))

\* The root's encoding in commit, where one shorter than 32 bytes is hashed
\* and not written.
HashRoot_NotWritten(enc) ==
    IF DataLen(enc.data) < KECCAK_SIZE
    THEN [data |-> Keccak(enc.data), cache |-> enc.cache]
    ELSE enc

\* The root's encoding enc in commit: one shorter than 32 bytes is hashed
\* and written under its hash as well.
HashRoot(enc) ==
    IF DataLen(enc.data) < KECCAK_SIZE
    THEN [data |-> Keccak(enc.data),
          cache |-> enc.cache \cup {<<Keccak(enc.data), enc.data>>}]
    ELSE enc

EncodeRoot(root) == HashRoot(EncodeNode(root))

\* keys_to_remove without the difference: every recovered hash.
KeysToRemove_All(rec, cache) == rec

\* keys_to_remove
KeysToRemove(rec, cache) == rec \ {e[1] : e \in cache}

\* commit's writes to the store: the batch insert, then the batch remove.
CommitDb(t, enc) ==
    DbRemoveBatch(DbInsertBatch(t.db, enc.cache),
                  KeysToRemove(t.recovered_nodes_hashes, enc.cache))

\* commit over enc, the root's encoding, and d, the store it leaves.
CommitResult(t, enc, d) ==
    [trie |-> MkTrie(RecoverFromDb(d, enc.data), enc.data, d, {}, t.cached_tries),
     res |-> enc.data]

CommitEncoded(t, enc) == CommitResult(t, enc, CommitDb(t, enc))

\* PatriciaTrie::commit (Trie::root): res is the root hash.
TrieCommit(t) == CommitEncoded(t, EncodeRoot(t.root))

\* TrieError::DB, the error of a store call that fails.
ErrDB == "DB"

\* The store calls of commit that can fail.
CommitFaults == {"insert_batch", "remove_batch", "get"}

\* The root a failed reload leaves: commit has deallocated the old graph and
\* self.root still points to it; the freed memory reads as it was, or not.
\* Node::Empty holds no pointer.
FreedRoot(r, junk) == IF junk /\ r.t # "Empty" THEN HashNode(JunkHash) ELSE r

\* commit with the batch remove before the batch insert, when the store
\* call fault fails.
CommitFailsOver_RemoveFirst(t, enc, fault, junk) ==
    IF fault = "remove_batch" THEN [trie |-> t, res |-> ErrDB]
    ELSE IF fault = "insert_batch"
    THEN [trie |-> [t EXCEPT !.db = DbRemoveBatch(t.db,
                        KeysToRemove(t.recovered_nodes_hashes, enc.cache))],
          res |-> ErrDB]
    ELSE [trie |-> MkTrie(FreedRoot(t.root, junk), enc.data, CommitDb(t, enc), {},
                          t.cached_tries),
          res |-> ErrDB]

\* PatriciaTrie::commit over enc, the root's encoding, when the store call
\* fault fails: the `?` returns with what was assigned before it.
CommitFailsOver(t, enc, fault, junk) ==
    IF fault = "insert_batch" THEN [trie |-> t, res |-> ErrDB]
    ELSE IF fault = "remove_batch"
    THEN [trie |-> [t EXCEPT !.db = DbInsertBatch(t.db, enc.cache)], res |-> ErrDB]
    ELSE [trie |-> MkTrie(FreedRoot(t.root, junk), enc.data, CommitDb(t, enc), {},
                          t.cached_tries),
          res |-> ErrDB]

TrieCommitFails(t, fault, junk) ==
    CommitFailsOver(t, EncodeRoot(t.root), fault, junk)

(***************************************************************************)
(* Proofs: get_proof, get_path_at and verify_proof.  A proof is the         *)
(* sequence of the encodings of nodes, the root's first.                   *)
(***************************************************************************)
\* get_path_at: the nodes loaded from the store along partial, the deepest
\* first, as [nodes, res]; res is "Ok" or the error of a load.
RECURSIVE GetPathAt(_, _, _)

GetPathAtHash(n, partial, db) ==
    LET recovered == RecoverFromDb(db, n.hash)
        rest == GetPathAt(recovered, partial, db)
    IN  IF IsErr(recovered) THEN [nodes |-> << >>, res |-> recovered.err]
        ELSE IF rest.res # "Ok" THEN rest
        ELSE [nodes |-> Append(rest.nodes, recovered), res |-> "Ok"]

GetPathAt(n, partial, db) ==
    CASE n.t \in {"Empty", "Leaf"} -> [nodes |-> << >>, res |-> "Ok"]
      [] n.t = "Branch" ->
           IF partial = << >> \/ At(partial, 0) = 16
           THEN [nodes |-> << >>, res |-> "Ok"]
           ELSE GetPathAt(Child(n, At(partial, 0)), Offset(partial, 1), db)
      [] n.t = "Extension" ->
           IF CommonPrefix(partial, n.prefix) = Len(n.prefix)
           THEN GetPathAt(n.node, Offset(partial, Len(n.prefix)), db)
           ELSE [nodes |-> << >>, res |-> "Ok"]
      [] n.t = "Hash" -> GetPathAtHash(n, partial, db)

\* The path of get_proof: a root that is not Empty is pushed last.
ProofPath(t, nodes) == IF t.root.t = "Empty" THEN nodes ELSE Append(nodes, t.root)

\* path.iter().rev().map(encode_raw)
EncodeReversed(path) ==
    [i \in 1..Len(path) |-> EncodeRaw(path[Len(path) + 1 - i]).data]

\* Trie::get_proof over p, the result of get_path_at: [proof, res], res "Ok",
\* the error, or Panic where encode_raw meets a Hash node (unreachable!()).
ProofResult(t, p) ==
    IF p.res # "Ok" THEN [proof |-> << >>, res |-> p.res]
    ELSE IF \E i \in 1..Len(ProofPath(t, p.nodes)) : ProofPath(t, p.nodes)[i].t = "Hash"
    THEN [proof |-> << >>, res |-> Panic]
    ELSE [proof |-> EncodeReversed(ProofPath(t, p.nodes)), res |-> "Ok"]

TrieGetProof(t, key) ==
    ProofResult(t, GetPathAt(t.root, FromRaw(key, TRUE), t.db))

\* MemoryDB::new(true): the light store, which answers the empty trie's
\* hash with the empty node's encoding.
MemoryDBNew == [h \in {Keccak(NULL_RLP)} |-> NULL_RLP]

\* The scratch store of verify_proof: the entries that hash to root_hash or
\* are 32 bytes or longer, each under its hash.
ProofDb(root_hash, proof) ==
    DbInsertBatch(MemoryDBNew,
        {<<Keccak(proof[i]), proof[i]>> : i \in
            {j \in 1..Len(proof) :
                root_hash = Keccak(proof[j]) \/ DataLen(proof[j]) >= KECCAK_SIZE}})

\* TrieError::InvalidProof, in the place of an Option.
InvalidProof == <<"Err", "InvalidProof">>

\* verify_proof over f, the trie opened at root_hash in the scratch store:
\* the Option read, InvalidProof, or Panic.
VerifyOpened(f, key) ==
    IF f.res # "Ok" THEN InvalidProof ELSE TrieGet(f.trie, key).res

\* Trie::verify_proof
VerifyProof(root_hash, key, proof) ==
    VerifyOpened(TrieFrom(ProofDb(root_hash, proof), root_hash), key)

(***************************************************************************)
(* TrieIterator.  An iterator is [nodes, nibble]: the stack of TraceNodes  *)
(* and the path of the node on top.  One turn of the loop of next answers  *)
(* [it, ret, item]: the iterator after it, and ret "continue", "some" (next *)
(* returns Some(item)) or "none" (next returns None).                      *)
(***************************************************************************)
StatusStart == [s |-> "Start", i |-> 0]
StatusDoing == [s |-> "Doing", i |-> 0]
StatusChild(i) == [s |-> "Child", i |-> i]
StatusEnd == [s |-> "End", i |-> 0]

\* From<Node> for TraceNode
TraceNode(node) == [node |-> node, status |-> StatusStart]

\* TraceNode::advance
Advance(tn) ==
    [tn EXCEPT !.status =
        IF tn.status.s = "Start" THEN StatusDoing
        ELSE IF tn.status.s = "Doing"
        THEN (IF tn.node.t = "Branch" THEN StatusChild(0) ELSE StatusEnd)
        ELSE IF tn.status.s = "Child" /\ tn.status.i < 15
        THEN StatusChild(tn.status.i + 1)
        ELSE StatusEnd]

Pop(seq) == SubSeq(seq, 1, Len(seq) - 1)
Truncate(seq, len) == SubSeq(seq, 1, len)

\* PatriciaTrie::iter
TrieIter(t) == [nodes |-> <<TraceNode(t.root)>>, nibble |-> << >>]

Turn(nodes, nibble, ret, item) ==
    [it |-> [nodes |-> nodes, nibble |-> nibble], ret |-> ret, item |-> item]

\* The arm (TraceStatus::End, node): the path loses what the node added.
NextEnd(now, adv, nibble) ==
    Turn(Pop(adv),
         CASE now.node.t = "Leaf" -> Truncate(nibble, Len(nibble) - Len(now.node.key))
           [] now.node.t = "Extension" ->
                Truncate(nibble, Len(nibble) - Len(now.node.prefix))
           [] now.node.t = "Branch" -> Pop(nibble)
           [] OTHER -> nibble,
         "continue", << >>)

\* The arm (TraceStatus::Doing, Node::Hash): the loaded node takes the
\* frame's place; a load that fails ends the iteration.
NextHash(now, adv, nibble, recovered) ==
    IF IsErr(recovered) THEN Turn(adv, nibble, "none", << >>)
    ELSE Turn(Append(Pop(adv), TraceNode(recovered)), nibble, "continue", << >>)

\* The arm (TraceStatus::Child(i), Node::Branch) with the children taken
\* from the last to the first.
NextChild_Descending(now, adv, nibble) ==
    Turn(Append(adv, TraceNode(Child(now.node, 15 - now.status.i))),
         IF now.status.i = 0 THEN Append(nibble, 15)
         ELSE Append(Pop(nibble), 15 - now.status.i),
         "continue", << >>)

\* The arm (TraceStatus::Child(i), Node::Branch)
NextChild(now, adv, nibble) ==
    Turn(Append(adv, TraceNode(Child(now.node, now.status.i))),
         IF now.status.i = 0 THEN Append(nibble, 0)
         ELSE Append(Pop(nibble), now.status.i),
         "continue", << >>)

\* One turn of the loop with now, the frame on top before it advances, and
\* adv, the stack after the advance.
NextTurn(now, adv, nibble, db) ==
    IF now.status.s = "End" THEN NextEnd(now, adv, nibble)
    ELSE IF now.status.s = "Doing" /\ now.node.t = "Extension"
    THEN Turn(Append(adv, TraceNode(now.node.node)), nibble \o now.node.prefix,
              "continue", << >>)
    ELSE IF now.status.s = "Doing" /\ now.node.t = "Leaf"
    THEN Turn(adv, nibble \o now.node.key, "some",
              <<EncodeRawNibbles(nibble \o now.node.key), now.node.value>>)
    ELSE IF now.status.s = "Doing" /\ now.node.t = "Branch"
    THEN (IF now.node.value # None
          THEN Turn(adv, nibble, "some", <<EncodeRawNibbles(nibble), now.node.value[1]>>)
          ELSE Turn(adv, nibble, "continue", << >>))
    ELSE IF now.status.s = "Doing" /\ now.node.t = "Hash"
    THEN NextHash(now, adv, nibble, RecoverFromDb(db, now.node.hash))
    ELSE IF now.status.s = "Child" /\ now.node.t = "Branch"
    THEN NextChild(now, adv, nibble)
    ELSE IF now.node.t = "Empty" THEN Turn(Pop(adv), nibble, "continue", << >>)
    ELSE Turn(adv, nibble, "continue", << >>)

IterTurn(it, db) ==
    IF it.nodes = << >> THEN Turn(it.nodes, it.nibble, "none", << >>)
    ELSE NextTurn(it.nodes[Len(it.nodes)],
                  [it.nodes EXCEPT ![Len(it.nodes)] = Advance(it.nodes[Len(it.nodes)])],
                  it.nibble, db)

\* TrieIterator::next: the loop runs until a turn returns.
RECURSIVE IterNext(_, _)
IterNextOver(r, db) == IF r.ret = "continue" THEN IterNext(r.it, db) ELSE r
IterNext(it, db) == IterNextOver(IterTurn(it, db), db)

\* The items an iterator yields until next answers None.
RECURSIVE IterAll(_, _)
IterAllOver(r, db) ==
    IF r.ret = "none" THEN << >> ELSE <<r.item>> \o IterAll(r.it, db)
IterAll(it, db) == IterAllOver(IterNext(it, db), db)

\* trie.iter().collect()
TrieItems(t) == IterAll(TrieIter(t), t.db)

\* The iterator of the state: on says that trie.iter() has made it, ret is
\* what the last turn of next did ("new" before the first), and ended that
\* some call of next has answered None.
NoIter ==
    [on |-> FALSE, nodes |-> << >>, nibble |-> << >>, ret |-> "new", ended |-> FALSE]

\* One turn of the loop of next; fails says that the store read of a Hash
\* frame fails (a DB error from db.get).
IterTurnOver(it, db, fails) ==
    IF /\ fails
       /\ it.nodes # << >>
       /\ it.nodes[Len(it.nodes)].status.s = "Doing"
       /\ it.nodes[Len(it.nodes)].node.t = "Hash"
    THEN NextHash(it.nodes[Len(it.nodes)],
                  [it.nodes EXCEPT ![Len(it.nodes)] = Advance(it.nodes[Len(it.nodes)])],
                  it.nibble, ErrNode(ErrDB))
    ELSE IterTurn(it, db)

\* The iterator after the turn r.
Turned(it, r) ==
    [on |-> TRUE, nodes |-> r.it.nodes, nibble |-> r.it.nibble, ret |-> r.ret,
     ended |-> it.ended \/ r.ret = "none"]

(***************************************************************************)
(* extract_backup and cache_node.  cache_node answers [data, cache, res]:  *)
(* the bytes it returns, the entries it has put into the cache, and "Ok"   *)
(* or the error of a load.                                                 *)
(***************************************************************************)
RECURSIVE CacheNode(_, _)

\* cache_node of the children 0 .. i-1 of a Branch, in order.
RECURSIVE CacheChildren(_, _, _)
CacheChildren(n, i, db) ==
    IF i = 0 THEN << >>
    ELSE Append(CacheChildren(n, i - 1, db), CacheNode(n.children[i], db))

\* Node::Branch over enc, what cache_node answers for the children: the
\* first error ends the call.
CacheBranchOver(n, enc) ==
    IF \E i \in 1..16 : enc[i].res # "Ok"
    THEN enc[CHOOSE i \in 1..16 : enc[i].res # "Ok" /\ \A j \in 1..(i - 1) : enc[j].res = "Ok"]
    ELSE [data |-> BranchItems(n, enc),
          cache |-> UNION {enc[i].cache : i \in 1..16},
          res |-> "Ok"]

\* Node::Extension over enc, what cache_node answers for the child.
CacheExtensionOver(n, enc) ==
    IF enc.res # "Ok" THEN enc
    ELSE [data |-> RlpList(<<RlpData(EncodeCompact(n.prefix)), ChildRef(enc.data)>>),
          cache |-> enc.cache,
          res |-> "Ok"]

\* Node::Hash over enc, what cache_node answers for the loaded node: the
\* bytes go into the cache under the Hash node's hash.
CacheHashOver(n, enc) ==
    IF enc.res # "Ok" THEN enc
    ELSE [data |-> n.hash, cache |-> enc.cache \cup {<<n.hash, enc.data>>}, res |-> "Ok"]

CacheLoaded(n, recovered, db) ==
    IF IsErr(recovered) THEN [data |-> NULL_RLP, cache |-> {}, res |-> recovered.err]
    ELSE CacheHashOver(n, CacheNode(recovered, db))

CacheNode(n, db) ==
    CASE n.t = "Empty" -> [data |-> NULL_RLP, cache |-> {}, res |-> "Ok"]
      [] n.t = "Leaf" -> [data |-> EncodeLeaf(n).data, cache |-> {}, res |-> "Ok"]
      [] n.t = "Branch" -> CacheBranchOver(n, CacheChildren(n, 16, db))
      [] n.t = "Extension" -> CacheExtensionOver(n, CacheNode(n.node, db))
      [] n.t = "Hash" -> CacheLoaded(n, RecoverFromDb(db, n.hash), db)

\* extract_backup over the loaded root and enc, what cache_node answers for
\* it: [trie, backup_db, addr_list, res].
ExtractOver(d, backup_db, root_hash, r, enc) ==
    IF IsErr(r) \/ enc.res # "Ok"
    THEN [trie |-> TrieNew(d), backup_db |-> backup_db, addr_list |-> << >>,
          res |-> IF IsErr(r) THEN r.err ELSE enc.res]
    ELSE [trie |-> MkTrie(r, root_hash, d, {}, EmptyCache),
          backup_db |-> DbInsertBatch(backup_db,
                            enc.cache \cup {<<Keccak(enc.data), enc.data>>}),
          addr_list |-> [i \in 1..Len(IterAll(TrieIter([root |-> r]), d)) |->
                            IterAll(TrieIter([root |-> r]), d)[i][1]],
          res |-> "Ok"]

ExtractLoaded(d, backup_db, root_hash, r) ==
    ExtractOver(d, backup_db, root_hash, r,
                IF IsErr(r) THEN [res |-> r.err] ELSE CacheNode(r, d))

\* PatriciaTrie::extract_backup
ExtractBackup(d, backup_db, root_hash) ==
    ExtractLoaded(d, backup_db, root_hash, RecoverFromDb(d, root_hash))

(***************************************************************************)
(* Gets that run at once.  Every reader runs get_at on its own thread; the *)
(* only thing they share that changes is cached_tries, an                  *)
(* Arc<RwLock<HashMap>>, and each cached trie carries a lock of its own.   *)
(* A lock is named by the path of hashes that leads to its map: << >> is   *)
(* the trie's own map, <<h>> the map of the trie cached under h, and so    *)
(* on.  A reader is a record: pc is where it stands, path the map it is    *)
(* at, hash and partial what it looks up there, held the number of read    *)
(* guards it holds (on the maps of the first held prefixes of path), trie  *)
(* the trie it has opened, res its answer.                                 *)
(***************************************************************************)
\* The number of readers.
Readers == 2
Threads == 1 .. Readers

Idle ==
    [pc |-> "idle", key |-> << >>, path |-> << >>, hash |-> JunkHash,
     partial |-> << >>, held |-> 0,
     trie |-> [root |-> Empty, cached_tries |-> EmptyCache], res |-> None]

\* No get has been called; cache0 is the cache the gets start from.
NoGets(cached) == [cache0 |-> cached, th |-> [t \in Threads |-> Idle]]

\* The map at the end of a path.
RECURSIVE CacheAt(_, _)
CacheAt(cached, path) ==
    IF path = << >> THEN cached
    ELSE CacheAt(cached[Head(path)].cached_tries, Tail(path))

\* cached_tries_mut.insert(hash, trie) on the map at the end of a path.
RECURSIVE CachePut(_, _, _, _)
CachePut(cached, path, hash, trie) ==
    IF path = << >> THEN (hash :> trie) @@ cached
    ELSE [cached EXCEPT ![Head(path)] =
            [root |-> @.root,
             cached_tries |-> CachePut(@.cached_tries, Tail(path), hash, trie)]]

\* get_at down to the first Hash node: <<"val", v>> when it answers before
\* one, <<"hash", h, partial>> when it stands at Node::Hash.
RECURSIVE WalkAt(_, _)
WalkAt(n, partial) ==
    CASE n.t = "Empty" -> <<"val", None>>
      [] n.t = "Leaf" -> <<"val", GetAtLeaf(n, partial)>>
      [] n.t = "Branch" ->
           IF partial = << >> \/ At(partial, 0) = 16
           THEN <<"val", n.value>>
           ELSE WalkAt(Child(n, At(partial, 0)), Offset(partial, 1))
      [] n.t = "Extension" ->
           IF CommonPrefix(partial, n.prefix) = Len(n.prefix)
           THEN WalkAt(n.node, Offset(partial, Len(n.prefix)))
           ELSE <<"val", None>>
      [] n.t = "Hash" -> <<"hash", n.hash, partial>>

\* The arm or the call returns: the guards held are dropped one scope at a
\* time, the innermost first.
Returning(th, res) ==
    [th EXCEPT !.res = res, !.pc = IF th.held = 0 THEN "done" ELSE "ret"]

\* th holds a read guard on the map at path p.
Holds(th, p) == \E i \in 0 .. th.held - 1 : SubSeq(th.path, 1, i) = p

\* The reader stands at what the walk w has come to, in the map at path.
Standing(th, w, path) ==
    IF w[1] = "val" THEN Returning(th, w[2])
    ELSE [th EXCEPT !.pc = "read", !.path = path, !.hash = w[2], !.partial = w[3]]

\* get: self.get_at(self.root.clone(), ..) down to the first Hash node.
CallOver(th, key, n) ==
    Standing([th EXCEPT !.key = key], WalkAt(n, FromRaw(key, TRUE)), << >>)

\* The hit: trie.get_at(trie.root.clone(), partial) under the read guard.
LookHit(th, trie) ==
    Standing(th, WalkAt(trie.root, th.partial), Append(th.path, th.hash))

\* PatriciaTrie::from(db, hash).unwrap() and get_at in the opened trie,
\* which no other reader sees yet and whose maps are all empty, so every
\* Hash node on the way is a miss in its turn: [val, trie], the answer (or
\* Panic) and the opened trie with the tries it has cached.
RECURSIVE OpenAt(_, _, _)

OpenInner(n, w, inner) ==
    IF inner.val = Panic THEN inner
    ELSE [val |-> inner.val,
          trie |-> [root |-> n, cached_tries |-> (w[2] :> inner.trie)]]

OpenWalked(n, w, d) ==
    IF w[1] = "val"
    THEN [val |-> w[2], trie |-> [root |-> n, cached_tries |-> EmptyCache]]
    ELSE CHOOSE r \in {OpenInner(n, w, inner) : inner \in {OpenAt(w[2], w[3], d)}} : TRUE

OpenAt(hash, partial, d) ==
    IF DbGet(d, hash) = None \/ IsErr(DecodeNode(DbGet(d, hash)[1]))
    THEN [val |-> Panic, trie |-> [root |-> Empty, cached_tries |-> EmptyCache]]
    ELSE CHOOSE r \in {OpenWalked(n, WalkAt(n, partial), d) :
                           n \in {DecodeNode(DbGet(d, hash)[1])}} : TRUE

\* The miss: the trie is opened and read under the read guard.
LookOpened(th, r) ==
    IF r.val = Panic THEN Returning(th, Panic)
    ELSE [th EXCEPT !.pc = "drop", !.res = r.val, !.trie = r.trie]

LookMiss(th, d) ==
    CHOOSE th2 \in {LookOpened(th, r) : r \in {OpenAt(th.hash, th.partial, d)}} : TRUE

\* self.cached_tries.read().unwrap() and the lookup of the hash in the map.
ReadOver(th, d, map) ==
    IF th.hash \in DOMAIN map THEN LookHit(th, map[th.hash])
    ELSE LookMiss(th, d)

\* The miss keeps its read guard and asks for the write guard on top of it.
DropGuard_Kept(th) == [th EXCEPT !.pc = "write"]

\* drop(cached_tries_ref)
DropGuard(th) == [th EXCEPT !.pc = "write", !.held = th.held - 1]

(***************************************************************************)
(* The state: one trie over its store, the key/value map its operations    *)
(* describe (kv, for the properties), the number of operations done, and   *)
(* the gets that run at once over the shared cache (gets), and an iterator *)
(* over the trie (iter).                                                   *)
(***************************************************************************)
VARIABLES root, root_hash, db, recovered_nodes_hashes, cached_tries, kv, nops, gets, iter

vars == <<root, root_hash, db, recovered_nodes_hashes, cached_tries, kv, nops, gets,
          iter>>

Self == MkTrie(root, root_hash, db, recovered_nodes_hashes, cached_tries)

Becomes(t) ==
    /\ root' = t.root
    /\ root_hash' = t.root_hash
    /\ db' = t.db
    /\ recovered_nodes_hashes' = t.recovered_nodes_hashes
    /\ cached_tries' = t.cached_tries

Init ==
    /\ root = Empty
    /\ root_hash = Keccak(NULL_RLP)
    /\ db = EmptyDb
    /\ recovered_nodes_hashes = {}
    /\ cached_tries = EmptyCache
    /\ kv = [k \in Keys |-> None]
    /\ nops = 0
    /\ gets = NoGets(EmptyCache)
    /\ iter = NoIter

\* trie.insert(key, value); the empty value removes.
Insert(key, value, junk) ==
    /\ nops < MaxOps
    /\ value # << >> => ~junk
    /\ Becomes(TrieInsert(Self, key, value, junk).trie)
    /\ kv' = [kv EXCEPT ![key] = IF value = << >> THEN None ELSE Some(value)]
    /\ nops' = nops + 1
    /\ UNCHANGED <<gets, iter>>

\* trie.remove(key)
Remove(key, junk) ==
    /\ nops < MaxOps
    /\ Becomes(TrieRemove(Self, key, junk).trie)
    /\ kv' = [kv EXCEPT ![key] = None]
    /\ nops' = nops + 1
    /\ UNCHANGED <<gets, iter>>

\* trie.root()
Commit ==
    /\ nops < MaxOps
    /\ Becomes(TrieCommit(Self).trie)
    /\ UNCHANGED kv
    /\ nops' = nops + 1
    /\ UNCHANGED <<gets, iter>>

\* trie.get(key), when it puts a trie into the cache (any other get, one
\* that panics included, leaves every field as it was).
Get(key) ==
    /\ nops < MaxOps
    /\ TrieGet(Self, key).trie.cached_tries # cached_tries
    /\ Becomes(TrieGet(Self, key).trie)
    /\ UNCHANGED kv
    /\ nops' = nops + 1
    /\ UNCHANGED <<gets, iter>>

Next ==
    \/ \E key \in Keys, value \in Values \cup {<< >>}, junk \in BOOLEAN :
          Insert(key, value, junk)
    \/ \E key \in Keys, junk \in BOOLEAN : Remove(key, junk)
    \/ Commit
    \/ \E key \in Keys : Get(key)

Spec == Init /\ [][Next]_vars

\* A fresh trie that takes inserts of keys it does not hold, then one root().
InsertFresh(key, value) ==
    /\ db = EmptyDb
    /\ kv[key] = None
    /\ Becomes(TrieInsert(Self, key, value, FALSE).trie)
    /\ kv' = [kv EXCEPT ![key] = Some(value)]
    /\ nops' = nops + 1
    /\ UNCHANGED <<gets, iter>>

RootCall ==
    /\ db = EmptyDb
    /\ Becomes(TrieCommit(Self).trie)
    /\ UNCHANGED kv
    /\ nops' = nops + 1
    /\ UNCHANGED <<gets, iter>>

NextIns ==
    \/ \E key \in Keys, value \in Values : InsertFresh(key, value)
    \/ RootCall

SpecIns == Init /\ [][NextIns]_vars

(***************************************************************************)
(* Gets at once: readers on their threads over one trie that no operation  *)
(* changes meanwhile, each calling get for one key.                        *)
(***************************************************************************)
\* The gets start from the trie t, which n operations have built and whose
\* keys have the values of m.
StartsAs(t, m, n) ==
    /\ root = t.root
    /\ root_hash = t.root_hash
    /\ db = t.db
    /\ recovered_nodes_hashes = t.recovered_nodes_hashes
    /\ cached_tries = t.cached_tries
    /\ kv = [k \in Keys |-> IF k \in DOMAIN m THEN Some(m[k]) ELSE None]
    /\ nops = n
    /\ gets = NoGets(t.cached_tries)
    /\ iter = NoIter

\* The tries the gets read: three keys under Hash nodes three deep (deep),
\* the same after a get has filled the cache, a trie whose store has lost
\* the leaf its root refers to (lost), and that trie with the leaf still
\* in the cache.
InitGets ==
    \E one \in {TrieInsert(TrieNew(EmptyDb), << >>, ShortValue, FALSE).trie} :
    \E two \in {TrieInsert(one, <<0>>, LongValue, FALSE).trie} :
    \E twoc \in {TrieCommit(two).trie} :
    \E three \in {TrieInsert(twoc, <<0, 0>>, LongValue, FALSE).trie} :
    \E deep \in {TrieCommit(three).trie} :
    \E removed \in {TrieRemove(twoc, <<0, 0>>, FALSE).trie} :
    \E lost \in {TrieCommit(removed).trie} :
    \E read \in {TrieGet(removed, <<0>>).trie} :
        \/ StartsAs(deep, (<< >> :> ShortValue) @@ (<<0>> :> LongValue)
                            @@ (<<0, 0>> :> LongValue), 5)
        \/ \E filled \in {TrieGet(deep, <<0>>).trie} :
             StartsAs(filled, (<< >> :> ShortValue) @@ (<<0>> :> LongValue)
                                @@ (<<0, 0>> :> LongValue), 6)
        \/ StartsAs(lost, (<< >> :> ShortValue) @@ (<<0>> :> LongValue), 5)
        \/ \E stale \in {TrieCommit(read).trie} :
             StartsAs(stale, (<< >> :> ShortValue) @@ (<<0>> :> LongValue), 6)

Moves(t, th) == gets' = [gets EXCEPT !.th[t] = th]

\* A thread calls trie.get(key).
Call(t, key) ==
    /\ gets.th[t].pc = "idle"
    /\ Moves(t, CallOver(gets.th[t], key, root))
    /\ UNCHANGED <<root, root_hash, db, recovered_nodes_hashes, cached_tries, kv, nops,
                   iter>>

\* The Hash arm takes the read guard of the map it stands at (no writer
\* keeps a guard between two steps) and looks its hash up.
Read(t) ==
    /\ gets.th[t].pc = "read"
    /\ Moves(t, ReadOver([gets.th[t] EXCEPT !.held = @ + 1], db,
                         CacheAt(cached_tries, gets.th[t].path)))
    /\ UNCHANGED <<root, root_hash, db, recovered_nodes_hashes, cached_tries, kv, nops,
                   iter>>

\* After a miss the read guard is dropped.
Drop(t) ==
    /\ gets.th[t].pc = "drop"
    /\ Moves(t, DropGuard(gets.th[t]))
    /\ UNCHANGED <<root, root_hash, db, recovered_nodes_hashes, cached_tries, kv, nops,
                   iter>>

\* self.cached_tries.write().unwrap(), once no reader holds a guard on the
\* map; the opened trie is inserted and the write guard goes with the arm.
Write(t) ==
    /\ gets.th[t].pc = "write"
    /\ \A u \in Threads : ~Holds(gets.th[u], gets.th[t].path)
    /\ cached_tries' = CachePut(cached_tries, gets.th[t].path, gets.th[t].hash,
                                gets.th[t].trie)
    /\ Moves(t, Returning(gets.th[t], gets.th[t].res))
    /\ UNCHANGED <<root, root_hash, db, recovered_nodes_hashes, kv, nops, iter>>

\* An arm returns (or a panic unwinds it) and its read guard is dropped.
Return(t) ==
    /\ gets.th[t].pc = "ret"
    /\ Moves(t, [gets.th[t] EXCEPT !.held = @ - 1,
                                   !.pc = IF gets.th[t].held = 1
                                          THEN "done" ELSE "ret"])
    /\ UNCHANGED <<root, root_hash, db, recovered_nodes_hashes, cached_tries, kv, nops,
                   iter>>

Step(t) ==
    \/ \E key \in Keys : Call(t, key)
    \/ Read(t)
    \/ Drop(t)
    \/ Write(t)
    \/ Return(t)

NextGets ==
    \/ \E t \in Threads, key \in Keys : Call(t, key)
    \/ \E t \in Threads : Read(t)
    \/ \E t \in Threads : Drop(t)
    \/ \E t \in Threads : Write(t)
    \/ \E t \in Threads : Return(t)

\* Every thread is scheduled again and again: a step a reader can take
\* without end is taken.
SpecGets ==
    InitGets /\ [][NextGets]_vars /\ \A t \in Threads : WF_vars(Step(t))

(***************************************************************************)
(* An iterator over a trie nobody writes: trie.iter(), then the turns of   *)
(* the loop of next, call after call.                                      *)
(***************************************************************************)
\* The tries iterated: those the gets read, and one with a Hash child and
\* an inline Leaf after it under the root Branch.
InitIter ==
    \/ InitGets
    \/ \E one \in {TrieInsert(TrieNew(EmptyDb), <<0>>, LongValue, FALSE).trie} :
       \E two \in {TrieInsert(one, <<16>>, ShortValue, FALSE).trie} :
       \E wide \in {TrieCommit(two).trie} :
           StartsAs(wide, (<<0>> :> LongValue) @@ (<<16>> :> ShortValue), 3)

\* trie.iter()
IterCall ==
    /\ ~iter.on
    /\ iter' = [NoIter EXCEPT !.on = TRUE, !.nodes = TrieIter(Self).nodes]
    /\ UNCHANGED <<root, root_hash, db, recovered_nodes_hashes, cached_tries, kv, nops,
                   gets>>

\* One turn of the loop of next: the first of a call when the turn before
\* has returned.
NextStep(fails) ==
    /\ iter.on
    /\ iter' = Turned(iter, IterTurnOver(iter, db, fails))
    /\ UNCHANGED <<root, root_hash, db, recovered_nodes_hashes, cached_tries, kv, nops,
                   gets>>

NextIter ==
    \/ IterCall
    \/ \E fails \in BOOLEAN : NextStep(fails)

\* The caller goes on calling next, and a call runs its loop.
SpecIter ==
    InitIter /\ [][NextIter]_vars /\ WF_vars(\E fails \in BOOLEAN : NextStep(fails))

(***************************************************************************)
(* Properties.                                                             *)
(***************************************************************************)
\* The hashes of the Hash nodes of an in-memory graph.
RECURSIVE HashesIn(_)
HashesIn(n) ==
    CASE n.t = "Hash" -> {n.hash}
      [] n.t = "Extension" -> HashesIn(n.node)
      [] n.t = "Branch" -> UNION {HashesIn(n.children[i]) : i \in 1..16}
      [] OTHER -> {}

\* C1: get(k) is Some(v) exactly when v is the value last inserted for k and
\* k has not been removed since, None otherwise; contains(k) is true exactly
\* when get(k) is Some; neither panics.
C1_GetRefinesMap ==
    \A k \in Keys :
        /\ TrieGet(Self, k).res = kv[k]
        /\ TrieContains(Self, k).res = (kv[k] # None)

\* The hashes an in-memory graph refers to, through the store's encodings.
RECURSIVE ReachFrom(_, _)
ReachFrom(n, d) ==
    UNION {{h} \cup (IF h \in DOMAIN d THEN ReachFrom(DecodeNode(d[h]), d) ELSE {})
           : h \in HashesIn(n)}

\* The root a fresh trie over an empty store returns once the pairs of the
\* map m have been inserted, the keys in the order KeyOrder.
RECURSIVE BuildFrom(_, _)
BuildFrom(m, i) ==
    IF i = 0 THEN TrieNew(EmptyDb)
    ELSE IF m[KeyOrder[i]] = None THEN BuildFrom(m, i - 1)
    ELSE TrieInsert(BuildFrom(m, i - 1), KeyOrder[i], m[KeyOrder[i]][1], FALSE).trie

CanonRoot(m) == TrieCommit(BuildFrom(m, Len(KeyOrder))).res

\* C2: the root hash depends only on the final key/value set: root() of the
\* trie equals root() of a trie that reached the same set by plain inserts.
C2_RootDependsOnlyOnSet == TrieCommit(Self).res = CanonRoot(kv)

\* C3: the root() of a fresh trie after inserts of distinct keys with
\* non-empty values, made in any order, is the root() the same pairs give
\* when inserted in the order KeyOrder.
C3_InsertionOrderIndependent == db # EmptyDb => root_hash = CanonRoot(kv)

\* root() has been called after all the keys were inserted, one value long.
C3_Witness ==
    /\ db # EmptyDb
    /\ \A k \in Keys : kv[k] # None
    /\ kv[<<16>>] = Some(LongValue)
    /\ kv[<<0>>] = Some(ShortValue)
    /\ root_hash = CanonRoot(kv)

\* C4: after a commit every hash a Hash node of the new root refers to,
\* directly or through the store, is in the store.
C4_NoPrematureDeletion ==
    LET t == TrieCommit(Self).trie
    IN  ReachFrom(t.root, t.db) \subseteq DOMAIN t.db

\* C5: after a commit the store holds no encoding that the new root does not
\* reach (the well-known entry of the empty trie set aside).
C5_NoLeaks ==
    LET t == TrieCommit(Self).trie
    IN  DOMAIN t.db \subseteq
            {t.root_hash, Keccak(NULL_RLP)} \cup ReachFrom(t.root, t.db)

\* C6: a new trie has root keccak256(0x80), and so has a trie whose every
\* inserted key has been removed.
C6_EmptyTrieIdentity ==
    /\ nops = 0 => root_hash = Keccak(NULL_RLP)
    /\ (\A k \in Keys : kv[k] = None) => TrieCommit(Self).res = Keccak(NULL_RLP)

\* C7: insert(k, v) of an absent key k followed by remove(k) gives the root
\* the trie had before the insert.
C7_DeleteInsertInverse ==
    \A k \in Keys, v \in Values, junk \in BOOLEAN :
        kv[k] = None =>
            LET before == TrieCommit(Self)
                inserted == TrieInsert(before.trie, k, v, FALSE).trie
                removed == TrieRemove(inserted, k, junk).trie
            IN  TrieCommit(removed).res = before.res

\* The Branch nodes of an in-memory graph that hold no child, or one child
\* and no value.
RECURSIVE ThinBranches(_)
ThinBranches(n) ==
    CASE n.t = "Extension" -> ThinBranches(n.node)
      [] n.t = "Branch" ->
           LET used == {i \in 1..16 : n.children[i] # Empty}
           IN  (IF used = {} \/ (Cardinality(used) = 1 /\ n.value = None)
                THEN {n} ELSE {})
               \cup UNION {ThinBranches(n.children[i]) : i \in 1..16}
      [] OTHER -> {}

\* C8: no Branch of the in-memory graph has no child, or one child and no
\* value.
C8_BranchNormalized == ThinBranches(root) = {}

\* The Extension nodes of an in-memory graph with an empty prefix or with an
\* Extension, a Leaf or Empty for a child.
RECURSIVE BadExtensions(_)
BadExtensions(n) ==
    CASE n.t = "Extension" ->
           (IF n.prefix = << >> \/ n.node.t \in {"Extension", "Leaf", "Empty"}
            THEN {n} ELSE {})
           \cup BadExtensions(n.node)
      [] n.t = "Branch" -> UNION {BadExtensions(n.children[i]) : i \in 1..16}
      [] OTHER -> {}

\* C9: no Extension of the in-memory graph has an Extension, a Leaf or Empty
\* for a child, or an empty prefix.
C9_ExtensionNormalized == BadExtensions(root) = {}

\* C10: after insert(k, v) and commit, get(k) is Some(v) on the trie and on
\* the trie opened with from(store, root), and the two agree on get for
\* every other key.
C10_RoundTrip ==
    \A k \in Keys, v \in Values :
        LET t == TrieCommit(TrieInsert(Self, k, v, FALSE).trie).trie
            f == TrieFrom(t.db, t.root_hash)
        IN  /\ TrieGet(t, k).res = Some(v)
            /\ f.res = "Ok"
            /\ TrieGet(f.trie, k).res = Some(v)
            /\ \A k2 \in Keys \ {k} : TrieGet(f.trie, k2).res = TrieGet(t, k2).res

\* The key/value sets over Keys and Values.
Maps == [Keys -> {None} \cup {Some(v) : v \in Values}]

\* The key/value sets that m holds with some of its keys left out.
SubMaps(m) == {n \in Maps : n # m /\ \A k \in Keys : n[k] \in {None, m[k]}}

\* C11: root() of the trie differs from root() of a trie whose key/value
\* set differs: here, of every trie built by plain inserts of the trie's
\* set with some of the keys left out.
C11_RootCommitsToSet ==
    LET r == TrieCommit(Self).res
    IN  \A m \in SubMaps(kv) : CanonRoot(m) # r

\* C12 for rm, the result of remove(k): it answers true exactly when k was
\* present; after false the root() is the one before, after true get(k) is
\* None and every other key keeps its value.
RemoveAnswers(k, rm) ==
    /\ rm.res = (kv[k] # None)
    /\ rm.res = FALSE => TrieCommit(rm.trie).res = TrieCommit(Self).res
    /\ rm.res = TRUE =>
          /\ TrieGet(rm.trie, k).res = None
          /\ \A k2 \in Keys \ {k} : TrieGet(rm.trie, k2).res = kv[k2]

\* C12: remove(k) answers true exactly when k was present; false leaves the
\* key/value set and root() as they were; after true get(k) is None and
\* every other key keeps its value.
C12_RemoveAnswersWasPresent ==
    \A k \in Keys, junk \in BOOLEAN : RemoveAnswers(k, TrieRemove(Self, k, junk))

\* C13 for once and twice, the tries after one and after two insert(k, v):
\* the same node graph and the same recorded hashes. insert changes no
\* other field, and get and root() are functions of the fields, so the key/
\* value set and the root() are the same.
SameTrie(once, twice) ==
    /\ twice.root = once.root
    /\ twice.recovered_nodes_hashes = once.recovered_nodes_hashes

\* The trie after one and after two insert(k, v).
InsertedOnce(k, v) == TrieInsert(Self, k, v, FALSE).trie
InsertedTwice(k, v) == TrieInsert(InsertedOnce(k, v), k, v, FALSE).trie

\* C13: insert(k, v) made twice leaves the key/value set and the root() that
\* one insert(k, v) leaves.
C13_InsertIdempotent ==
    \A k \in Keys, v \in Values : SameTrie(InsertedOnce(k, v), InsertedTwice(k, v))

\* A trie read back from the store, where the insert goes through a Hash
\* node and the key is there with another value.
C13_Witness ==
    /\ kv[<<0>>] = Some(LongValue)
    /\ kv[<<1>>] = Some(ShortValue)
    /\ HashesIn(root) # {}
    /\ InsertedOnce(<<0>>, ShortValue).recovered_nodes_hashes # recovered_nodes_hashes
    /\ SameTrie(InsertedOnce(<<0>>, ShortValue), InsertedTwice(<<0>>, ShortValue))
    /\ TrieGet(InsertedTwice(<<0>>, ShortValue), <<0>>).res = Some(ShortValue)

\* The results of insert(k, empty value) and of remove(k) from the state.
InsertedEmpty(k, junk) == TrieInsert(Self, k, << >>, junk)
Removed(k, junk) == TrieRemove(Self, k, junk)

\* C14: insert(k, v) with v empty answers success, whether k was present or
\* not, and leaves the trie that remove(k) leaves: the same node graph and
\* recorded hashes, so the same key/value set and root().
C14_EmptyInsertIsRemove ==
    \A k \in Keys, junk \in BOOLEAN :
        /\ InsertedEmpty(k, junk).res = "Ok"
        /\ SameTrie(Removed(k, junk).trie, InsertedEmpty(k, junk).trie)

\* A trie read back from the store that holds 0x00 under a Hash node:
\* insert(0x00, empty) removes it, and insert("", empty) of the absent
\* empty key answers success as well.
C14_Witness ==
    /\ kv[<<0>>] = Some(LongValue)
    /\ kv[<< >>] = None
    /\ HashesIn(root) # {}
    /\ Removed(<<0>>, FALSE).res = TRUE
    /\ InsertedEmpty(<<0>>, FALSE).trie.root # root
    /\ TrieGet(InsertedEmpty(<<0>>, FALSE).trie, <<0>>).res = None
    /\ InsertedEmpty(<< >>, FALSE).res = "Ok"

\* C15 for r, the result of a commit that failed: the root graph is the one
\* before the call and every hash recorded before the call is still
\* recorded.
Retryable(r) ==
    /\ r.trie.root = root
    /\ recovered_nodes_hashes \subseteq r.trie.recovered_nodes_hashes

\* C15: when commit answers an error (insert_batch, remove_batch or the
\* reload of the new root failed) the in-memory root graph is unchanged and
\* recovered_nodes_hashes holds every hash recorded before the call.
C15_FailedCommitRetryable ==
    \A fault \in CommitFaults, junk \in BOOLEAN :
        Retryable(TrieCommitFails(Self, fault, junk))

\* The walk along partial from n reaches a Hash node whose hash the store
\* does not hold (a loaded node is walked on into).
RECURSIVE MissingOnPath(_, _)
MissingOnPath(n, partial) ==
    CASE n.t = "Branch" ->
           /\ partial # << >> /\ At(partial, 0) # 16
           /\ MissingOnPath(Child(n, At(partial, 0)), Offset(partial, 1))
      [] n.t = "Extension" ->
           /\ CommonPrefix(partial, n.prefix) = Len(n.prefix)
           /\ MissingOnPath(n.node, Offset(partial, Len(n.prefix)))
      [] n.t = "Hash" ->
           \/ DbGet(db, n.hash) = None
           \/ MissingOnPath(DecodeNode(DbGet(db, n.hash)[1]), partial)
      [] OTHER -> FALSE

\* get answers an error: not a panic and not an Option.
GetReportsError(t, k) ==
    LET res == TrieGet(t, k).res
    IN  res # Panic /\ res # None /\ res \notin {Some(v) : v \in Values}

\* insert answers an error.
InsertReportsError(t, k, v) == TrieInsert(t, k, v, FALSE).res # "Ok"

\* remove answers an error: delete_at did.
RemoveReportsError(t, k) == IsErr(DeleteAt(t.root, FromRaw(k, TRUE), t.db, FALSE).node)

\* C16: when the path of a key reaches a Hash node whose hash is absent from
\* the store, get, insert and remove of that key report an error: no panic,
\* and no answer computed as if the missing sub-trie were empty.
C16_ErrorsSurfaced ==
    \A k \in Keys :
        MissingOnPath(root, FromRaw(k, TRUE)) =>
            /\ GetReportsError(Self, k)
            /\ InsertReportsError(Self, k, ShortValue)
            /\ RemoveReportsError(Self, k)

\* The proof lists verify_proof is given: what get_proof answers for k, and
\* that list with one entry left out.
WithoutEntry(proof, i) == [j \in 1..(Len(proof) - 1) |-> IF j < i THEN proof[j] ELSE proof[j + 1]]
ProofLists(k) ==
    LET g == TrieGetProof(TrieCommit(Self).trie, k)
    IN  IF g.res # "Ok" THEN {}
        ELSE {g.proof} \cup {WithoutEntry(g.proof, i) : i \in 1..Len(g.proof)}

\* C17: verify_proof answers Some(value), None or InvalidProof for every
\* proof list, one that leaves out a node referenced by hash included; it
\* never panics.
C17_VerifyThreeOutcomes ==
    \A k \in Keys : \A proof \in ProofLists(k) :
        VerifyProof(TrieCommit(Self).res, k, proof) \in
            {None, InvalidProof} \cup {Some(v) : v \in Values}

\* What verify_proof answers for k on the committed trie c, with the proof
\* get_proof gives for k there; the answer of get_proof where it is not Ok.
ProvedOver(c, g, k) ==
    IF g.res # "Ok" THEN g.res ELSE VerifyProof(c.root_hash, k, g.proof)
Proved(k) ==
    ProvedOver(TrieCommit(Self).trie, TrieGetProof(TrieCommit(Self).trie, k), k)

\* C18: on the committed trie, for every key k present with value v,
\* verify_proof(root, k, get_proof(k)) answers Some(v).
C18_ProofSoundness ==
    \A k \in Keys : kv[k] # None => Proved(k) = kv[k]

\* C19: on the committed trie, for every key k that is not present,
\* verify_proof(root, k, get_proof(k)) answers None.
C19_ProofCompleteForAbsence ==
    \A k \in Keys : kv[k] = None => Proved(k) = None

\* C20: for every key the list get_proof answers is not empty and its first
\* entry is the encoding of the root node.
C20_ProofStartsAtRoot ==
    \A k \in Keys :
        /\ TrieGetProof(Self, k).res = "Ok"
        /\ TrieGetProof(Self, k).proof # << >>
        /\ TrieGetProof(Self, k).proof[1] = EncodeRaw(root).data

\* The pairs of the key/value set, and a sequence that holds each of them
\* once and nothing else.
LivePairs == {<<k, kv[k][1]>> : k \in {k2 \in Keys : kv[k2] # None}}
YieldsLiveSet(items) ==
    /\ {items[i] : i \in 1..Len(items)} = LivePairs
    /\ Len(items) = Cardinality(LivePairs)

\* The trie opened with from at the root a commit of t answers.
Reopened(c) == TrieFrom(c.db, c.root_hash).trie

\* C21: iter() yields each present (key, value) pair once, with the key's
\* bytes and its current value, and nothing else: on the trie as it is, and
\* on the committed trie opened again with from.
C21_IterationCoversLiveSet ==
    /\ YieldsLiveSet(TrieItems(Self))
    /\ YieldsLiveSet(TrieItems(Reopened(TrieCommit(Self).trie)))

\* The order of keys by their nibble sequences: a proper prefix comes
\* first, otherwise the first nibble that differs decides.
NibbleLess(a, b) ==
    LET c == CommonPrefix(a, b)
    IN  IF c = Len(a) THEN Len(b) > Len(a)
        ELSE c < Len(b) /\ a[c + 1] < b[c + 1]
Ascending(items) ==
    \A i \in 1..(Len(items) - 1) :
        NibbleLess(FromRaw(items[i][1], FALSE), FromRaw(items[i + 1][1], FALSE))

\* C22: iter() yields its pairs in strictly ascending order of the keys'
\* nibble sequences, a key that is a proper prefix of another before it.
C22_IterationAscending == Ascending(TrieItems(Self))

\* The empty key, 0x00 and 0x0000 are present, nodes of the trie are behind
\* a Hash node, and iter() yields the empty key's pair first and 0x00
\* before 0x0000.
C22_Witness ==
    /\ kv[<< >>] # None /\ kv[<<0>>] # None /\ kv[<<0, 0>>] # None
    /\ HashesIn(root) # {}
    /\ Len(TrieItems(Self)) >= 3
    /\ TrieItems(Self)[1][1] = << >>
    /\ TrieItems(Self)[2][1] = <<0>>
    /\ TrieItems(Self)[3][1] = <<0, 0>>

\* The store with one more entry, which is not the encoding of a node.
Undecodable == RlpData(<<1>>)
WithUndecodable(d) == DbInsertBatch(d, {<<JunkHash, Undecodable>>})

\* The hashes from is tried at: the keys of the store, the root hash, the
\* hashes the root graph refers to, and one the store never holds.
HashesTried == DOMAIN db \cup HashesIn(root) \cup {root_hash, JunkHash}

\* from(d, h) answers Ok exactly when d holds a decodable node under h, and
\* then the trie has that node as root and h as root hash; it answers
\* InvalidStateRoot when d holds nothing under h.
FromAnswers(d, h, f) ==
    /\ (f.res = "Ok") = (h \in DOMAIN d /\ ~IsErr(DecodeNode(d[h])))
    /\ f.res = "Ok" => /\ f.trie.root = DecodeNode(d[h])
                       /\ f.trie.root_hash = h
                       /\ f.trie.recovered_nodes_hashes = {}
    /\ h \notin DOMAIN d => f.res = "InvalidStateRoot"

\* C23: from(store, root_hash) succeeds exactly when root_hash is a key of
\* the store that holds a decodable node, and answers InvalidStateRoot when
\* root_hash is absent from the store.
C23_FromSucceedsIffPresent ==
    \A h \in HashesTried :
        /\ FromAnswers(db, h, TrieFrom(db, h))
        /\ FromAnswers(WithUndecodable(db), h, TrieFrom(WithUndecodable(db), h))

\* The store holds the committed root, a Branch, which from opens; a hash
\* the store does not hold is refused with InvalidStateRoot, and the
\* undecodable entry with InvalidData.
C23_Witness ==
    /\ root_hash \in DOMAIN db
    /\ TrieFrom(db, root_hash).res = "Ok"
    /\ TrieFrom(db, root_hash).trie.root.t = "Branch"
    /\ JunkHash \notin DOMAIN db
    /\ TrieFrom(db, JunkHash).res = "InvalidStateRoot"
    /\ TrieFrom(WithUndecodable(db), JunkHash).res = "InvalidData"

\* Every entry of the store d has the keccak of its value as key, and its
\* value is the encoding of the node it decodes to.
IsNodeEncoding(v) == ~IsErr(DecodeNode(v)) /\ EncodeRaw(DecodeNode(v)).data = v
WellFormedStore(d) == \A h \in DOMAIN d : h = Keccak(d[h]) /\ IsNodeEncoding(d[h])

\* C24: every entry commit has written to the store, and every entry
\* extract_backup writes to an empty destination store for the committed
\* root, has key = keccak256(value) and a node's encoding as value.
C24_StoreFormat ==
    /\ WellFormedStore(db)
    /\ WellFormedStore(ExtractBackup(db, EmptyDb, root_hash).backup_db)

\* The trie t has the root graph, the root hash, the store and the
\* recovered hashes of the state.
SameButCache(t) ==
    /\ t.root = root
    /\ t.root_hash = root_hash
    /\ t.db = db
    /\ t.recovered_nodes_hashes = recovered_nodes_hashes

Degenerated(r) == Degenerate(r.node, db).node = r.node

\* C26: whenever delete_at answers removed = true, the node it answers has
\* been passed through degenerate, also when the key ends at a Branch whose
\* value was cleared.
C26_RemovedIsDegenerated ==
    \A k \in Keys, junk \in BOOLEAN :
        DeleteAt(root, FromRaw(k, TRUE), db, junk).removed =>
            Degenerated(DeleteAt(root, FromRaw(k, TRUE), db, junk))

\* The keys commit writes, with enc the encoding of the root.
Written(enc) == {e[1] : e \in enc.cache}

\* With d the store a commit leaves: the keys it has removed are the
\* recovered hashes it has not written, every key it has written is there,
\* and nothing else has changed.
RemovesStale(enc, d) ==
    /\ DOMAIN db \ DOMAIN d = (recovered_nodes_hashes \ Written(enc)) \cap DOMAIN db
    /\ Written(enc) \subseteq DOMAIN d
    /\ DOMAIN d \subseteq DOMAIN db \cup Written(enc)
    /\ \A h \in DOMAIN d \ Written(enc) : d[h] = db[h]

\* C27: the store keys a commit removes are exactly recovered_nodes_hashes
\* minus the keys that commit writes: it removes no hash that was not
\* expanded since the last commit and no key it has just written.
C27_CommitRemovesExactlyStale ==
    RemovesStale(EncodeRoot(root), CommitDb(Self, EncodeRoot(root)))

\* A recovered hash is written again by the commit and kept, and another
\* recovered hash, which the store holds, is not written and is removed.
C27_Witness ==
    /\ recovered_nodes_hashes \cap Written(EncodeRoot(root)) # {}
    /\ (recovered_nodes_hashes \ Written(EncodeRoot(root))) \cap DOMAIN db # {}
    /\ recovered_nodes_hashes \cap DOMAIN TrieCommit(Self).trie.db # {}
    /\ ~(recovered_nodes_hashes \subseteq DOMAIN TrieCommit(Self).trie.db)

\* With r the trie a commit leaves that stopped at the failing store call
\* fault: a failed batch leaves root_hash and recovered_nodes_hashes as they
\* were and has removed nothing; the store has lost a key only when every
\* new encoding is written; root_hash and recovered_nodes_hashes have
\* changed only when both batches are done.
StepsInOrder(enc, r, fault) ==
    /\ fault \in {"insert_batch", "remove_batch"} =>
           /\ r.root_hash = root_hash
           /\ r.recovered_nodes_hashes = recovered_nodes_hashes
           /\ DOMAIN db \subseteq DOMAIN r.db
    /\ fault = "insert_batch" => r.db = db
    /\ fault = "remove_batch" => Written(enc) \subseteq DOMAIN r.db
    /\ DOMAIN db \ DOMAIN r.db # {} => Written(enc) \subseteq DOMAIN r.db
    /\ (r.root_hash # root_hash \/ r.recovered_nodes_hashes # recovered_nodes_hashes) =>
           r.db = CommitDb(Self, enc)

\* C28: within a commit the new encodings are written before the stale
\* hashes are removed, and root_hash and recovered_nodes_hashes change only
\* after both batches: wherever the commit stops, no stale hash is removed
\* while a new encoding is not yet written.
C28_CommitStepOrder ==
    \A fault \in CommitFaults :
        StepsInOrder(EncodeRoot(root), TrieCommitFails(Self, fault, FALSE).trie, fault)

\* The commit has both new encodings to write and a stale hash to remove:
\* stopped at remove_batch it has written and not removed, and stopped at
\* the reload it has done both.
C28_Witness ==
    /\ Written(EncodeRoot(root)) \ DOMAIN db # {}
    /\ (recovered_nodes_hashes \ Written(EncodeRoot(root))) \cap DOMAIN db # {}
    /\ TrieCommitFails(Self, "remove_batch", FALSE).trie.db # db
    /\ DOMAIN db \subseteq DOMAIN TrieCommitFails(Self, "remove_batch", FALSE).trie.db
    /\ ~(DOMAIN db \subseteq DOMAIN TrieCommitFails(Self, "get", FALSE).trie.db)

\* With c the answer of a commit, again the answer of a second commit right
\* after it and opened the answer of a commit of the trie that from opens
\* at c's root hash in c's store: each gives c's root hash and leaves c's
\* store as it is.
SameCommit(c, again, opened) ==
    /\ again.res = c.res
    /\ again.trie.db = c.trie.db
    /\ opened.res = c.res
    /\ opened.trie.db = c.trie.db

CommittedTwice == TrieCommit(TrieCommit(Self).trie)
CommittedReopened == TrieCommit(Reopened(TrieCommit(Self).trie))

\* C29: root() called twice with no write in between, and root() on the
\* committed trie opened again with from(store, root), answer the same root
\* hash and leave the store unchanged.
C29_CommitIdempotent ==
    /\ TrieFrom(TrieCommit(Self).trie.db, TrieCommit(Self).res).res = "Ok"
    /\ SameCommit(TrieCommit(Self), CommittedTwice, CommittedReopened)

\* The trie is committed, its root is a Branch with a value and a child
\* behind a Hash node, and a further root() answers the same hash.
C29_Witness ==
    /\ root_hash \in DOMAIN db
    /\ recovered_nodes_hashes = {}
    /\ root.t = "Branch" /\ root.value # None
    /\ HashesIn(root) # {} /\ HashesIn(root) \subseteq DOMAIN db
    /\ TrieCommit(Self).res = root_hash
    /\ CommittedReopened.res = root_hash

\* The trie t with an empty read cache.
Uncached(t) == MkTrie(t.root, t.root_hash, t.db, t.recovered_nodes_hashes, EmptyCache)

\* On t every get answers what the same lookup answers with an empty cache
\* against t's store.
AdvisoryOn(t) ==
    \A k \in Keys : TrieGet(t, k).res = TrieGet(Uncached(t), k).res

\* C30: every get answers what the same lookup answers with an empty cache
\* against the store as it is: on the trie of the state and on the trie a
\* commit leaves.
C30_CacheIsAdvisory ==
    /\ AdvisoryOn(Self)
    /\ AdvisoryOn(TrieCommit(Self).trie)

\* Every reader has its answer.
AllDone == \A t \in Threads : gets.th[t].pc = "done"

\* A reader can take its next step, even with a lock that keeps new readers
\* out while a writer waits.
CanStep(t) ==
    \/ gets.th[t].pc \in {"idle", "drop", "ret"}
    \/ /\ gets.th[t].pc = "read"
       /\ \A u \in Threads :
            ~(gets.th[u].pc = "write" /\ gets.th[u].path = gets.th[t].path)
    \/ /\ gets.th[t].pc = "write"
       /\ \A u \in Threads : ~Holds(gets.th[u], gets.th[t].path)

NoDeadlock == AllDone \/ \E t \in Threads : CanStep(t)

\* What get(key) answers run alone on the trie the gets started from.
Alone(key) ==
    GetAt(root, FromRaw(key, TRUE), db, gets.cache0).val

AsAlone ==
    \A t \in Threads : gets.th[t].pc = "done" => gets.th[t].res = Alone(gets.th[t].key)

\* C31: gets that run at once over one shared cached_tries map never
\* deadlock, every one of them terminates, and each answers what it would
\* answer run alone.
C31_ConcurrentReadersSafe == [](NoDeadlock /\ AsAlone) /\ <>AllDone

\* A reader waits for the write guard of a map another reader holds a read
\* guard on.
C31_Witness ==
    \E t \in Threads, u \in Threads :
        /\ t # u
        /\ gets.th[t].pc = "write"
        /\ Holds(gets.th[u], gets.th[t].path)

\* The place of a status on the way Start, Doing, Child(0), ..., Child(15), End.
Rank(status) ==
    CASE status.s = "Start" -> 0
      [] status.s = "Doing" -> 1
      [] status.s = "Child" -> 2 + status.i
      [] status.s = "End" -> 18

\* A frame that stays on the stack over a step keeps its status or takes
\* the next one of its node's way.
MovesForward(old, new) ==
    \/ new.status = old.status
    \/ Rank(new.status) = Rank(old.status) + 1 /\ old.node.t = "Branch"
    \/ old.status.s = "Start" /\ new.status.s = "Doing"
    \/ old.status.s = "Doing" /\ new.status.s = "End" /\ old.node.t # "Branch"

StatusForward ==
    \A i \in 1 .. Min(Len(iter.nodes), Len(iter'.nodes)) :
        iter'.nodes[i].node = iter.nodes[i].node
            => MovesForward(iter.nodes[i], iter'.nodes[i])

\* A frame is pushed with the status Start.
PushedAtStart ==
    Len(iter'.nodes) > Len(iter.nodes)
        => iter'.nodes[Len(iter'.nodes)].status = StatusStart

NibbleEmptyWithStack == iter.on /\ iter.nodes = << >> => iter.nibble = << >>

\* After a call of next has answered None no call answers Some.
NoneStays == iter.ended => iter.ret # "some"

\* C32: a frame's status only moves forward along Start, Doing, Child(0),
\* ..., Child(15), End (Start, Doing, End for a node that is no Branch);
\* every frame is popped in the end, so the stack runs empty; once next has
\* answered None it goes on answering None; and the nibble buffer is empty
\* when the stack is.
C32_IteratorStackMachine ==
    /\ [][StatusForward /\ PushedAtStart]_vars
    /\ [](NibbleEmptyWithStack /\ NoneStays)
    /\ (iter.on ~> iter.nodes = << >>)

\* The keys a sequence of addresses holds, each once.
HoldsEachOnce(addr_list, keys) ==
    /\ {addr_list[i] : i \in 1..Len(addr_list)} = keys
    /\ Len(addr_list) = Cardinality(keys)

\* x is what extract_backup answers for the store and the root hash of the
\* committed trie c and an empty destination store; src and dst are from on
\* the source and on the destination store at that root hash.
BackedUpOver(c, x, src, dst) ==
    /\ x.res = "Ok"
    /\ WellFormedStore(x.backup_db)
    /\ c.root_hash \in DOMAIN x.backup_db
    /\ ReachFrom(c.root, x.backup_db) \subseteq DOMAIN x.backup_db
    /\ src.res = "Ok"
    /\ dst.res = "Ok"
    /\ \A k \in Keys : TrieGet(dst.trie, k).res = TrieGet(src.trie, k).res
    /\ HoldsEachOnce(x.addr_list,
                     {k \in Keys : /\ TrieGet(src.trie, k).res # None
                                   /\ TrieGet(src.trie, k).res # Panic})
    /\ x.trie.db = c.db

BackedUpFrom(c, x) ==
    BackedUpOver(c, x, TrieFrom(c.db, c.root_hash), TrieFrom(x.backup_db, c.root_hash))

BackedUp(c) == BackedUpFrom(c, ExtractBackup(c.db, EmptyDb, c.root_hash))

\* C33: extract_backup at a committed root writes into the destination
\* store the encoding of every node reachable from the root under its hash;
\* from opens the destination at the root and every get answers there what
\* it answers on the source; the keys returned are the keys present at the
\* root, each once; the source store is as it was.
C33_BackupCopiesSubTrie == BackedUp(TrieCommit(Self).trie)

====
